---------------------------- MODULE Spec2Model ----------------------------
(***************************************************************************)
(* A model of the two training entry points of the repository,            *)
(* src/train.py (consistency / pseudo-label training) and                 *)
(* src/train_adversarial.py (adversarial training), and of the validation *)
(* mosaic of src/train_adversarial.py.                                    *)
(*                                                                         *)
(* Five specifications share the module:                                   *)
(*   SpecStartup  the start-up sequence of both scripts up to the loop    *)
(*   SpecGate     the pseudo-label gate applied to one confidence value   *)
(*   Spec         the training loop of both scripts, two runs side by side*)
(*   SpecMosaic   the weighted overlap-add mosaic of one tile             *)
(*   SpecValidation  the validation passes of both scripts: the tile      *)
(*                aggregation val_outputs and the per-tile image export   *)
(*                                                                         *)
(* Real numbers are fixed point: confidences are hundredths, losses are   *)
(* hundredths of a nat, logits are small integers.  Mosaic arithmetic is  *)
(* exact rational arithmetic on the stencil's numerators (the float64     *)
(* rounding of the division is not modelled).                             *)
(***************************************************************************)
EXTENDS Integers, Sequences, FiniteSets, TLC

VARIABLES
  \* ---- start-up (SpecStartup)
  entry,        \* which script runs: "train" or "adversarial"
  st_pc,        \* position in the script's __main__ before the loop
  args_name,    \* --name
  fs,           \* the directories and files that exist under runs/
  fs0,          \* fs as it was when the process started
  wandb_run,    \* the telemetry session: NoRun or the run id wandb.init gave
  state_made,   \* whether the TrainingState / AdversarialState was constructed
  keys_made,    \* whether train_key / persistent_val_key were created
  \* ---- pseudo-label gate (SpecGate)
  conf,         \* a confidence, in hundredths
  label,        \* <<>> before the gate ran, <<the label it gave conf>> after
  \* ---- training loop (Spec)
  run,          \* per run: the loop's variables
  heap,         \* per run: the state objects allocated so far
  shared,       \* what both runs are given: script, seed, weight, data offset
  \* ---- mosaic (SpecMosaic)
  data,         \* the tile's patch list
  m_pc,         \* position in the mosaic code
  canvas,       \* weight, rgb, mask, pred accumulators / normalized rasters
  \* ---- validation pass (SpecValidation)
  val_cfg,      \* script, validation.frequency, validation.image_frequency,
                \* the validation data sets by tag
  val_step,     \* step of the training loop
  val_pc,       \* position in the loop body: "loop", "begin", "iterate", "images"
  val_tag,      \* index of the validation data set the pass is about
  val_i,        \* number of validation batches the pass has taken
  val_outputs,  \* the tile aggregation: <<[tile, data]>> in insertion order
  val_todo,     \* the tiles `for tile, data in val_outputs.items()` has yet to visit
  wandb_log     \* the images exported so far: <<[step, tag, tile, data]>>

startup_vars == <<entry, st_pc, args_name, fs, fs0, wandb_run, state_made, keys_made>>
gate_vars    == <<conf, label>>
train_vars   == <<run, heap, shared>>
mosaic_vars  == <<data, m_pc, canvas>>
val_vars     == <<val_cfg, val_step, val_pc, val_tag, val_i, val_outputs,
                  val_todo, wandb_log>>
vars == <<startup_vars, gate_vars, train_vars, mosaic_vars, val_vars>>

Idle == "idle"
NoRun == "no_run"

(***************************************************************************)
(*                              START-UP                                   *)
(***************************************************************************)
Names  == {"a", "b", "c"}
RunIds == {"a", "b", "c"}   \* the ids wandb.init may hand out (WANDB_RUN_ID, resume)

Entries == {"train", "adversarial"}

\* Path(f'runs/{...}/')
RunDirOf(n) == <<"runs", n>>
ConfigOf(n) == <<"runs", n, "config.yml">>

\* run_dir: train.py names it after --name, train_adversarial.py after the
\* id of the wandb run (which exists only after wandb.init).
run_dir == IF entry = "train" THEN RunDirOf(args_name) ELSE RunDirOf(wandb_run)

\* The state after parser.parse_args().
InitStartup ==
  /\ entry \in Entries
  /\ args_name \in Names
  /\ fs0 \in SUBSET {RunDirOf(n) : n \in Names}
  /\ fs = fs0
  /\ st_pc = "parsed"
  /\ wandb_run = NoRun
  /\ state_made = FALSE
  /\ keys_made = FALSE
  /\ conf = 0 /\ label = <<>>
  /\ run = <<>> /\ heap = <<>> /\ shared = <<>>
  /\ data = <<>> /\ m_pc = Idle /\ canvas = <<>>
  /\ val_cfg = <<>> /\ val_step = 0 /\ val_pc = Idle /\ val_tag = 0 /\ val_i = 0
  /\ val_outputs = <<>> /\ val_todo = <<>> /\ wandb_log = <<>>

\* train.py 124-125: run_dir = Path(...); assert not run_dir.exists()
TrainCheckRunDir ==
  /\ entry = "train" /\ st_pc = "parsed"
  /\ st_pc' = IF run_dir \in fs THEN "aborted" ELSE "checked"
  /\ UNCHANGED <<entry, args_name, fs, fs0, wandb_run, state_made, keys_made,
               gate_vars, train_vars, mosaic_vars, val_vars>>

\* train.py 127-129, train_adversarial.py 125-126: the PRNG keys.
MakeKeys ==
  /\ \/ entry = "train" /\ st_pc = "checked"
     \/ entry = "adversarial" /\ st_pc = "parsed"
  /\ keys_made' = TRUE
  /\ st_pc' = "keys"
  /\ UNCHANGED <<entry, args_name, fs, fs0, wandb_run, state_made,
               gate_vars, train_vars, mosaic_vars, val_vars>>

\* train.py 131-138, train_adversarial.py 128-139: config.update, the loaders.
LoadConfigAndData ==
  /\ st_pc = "keys"
  /\ st_pc' = "data"
  /\ UNCHANGED <<entry, args_name, fs, fs0, wandb_run, state_made, keys_made,
               gate_vars, train_vars, mosaic_vars, val_vars>>

\* train.py 140-147, train_adversarial.py 141-152: model, optimizer, state.
MakeState ==
  /\ st_pc = "data"
  /\ state_made' = TRUE
  /\ st_pc' = "state"
  /\ UNCHANGED <<entry, args_name, fs, fs0, wandb_run, keys_made,
               gate_vars, train_vars, mosaic_vars, val_vars>>

\* train.py 149, train_adversarial.py 154: wandb.init opens the session.
WandbInit ==
  /\ st_pc = "state"
  /\ \E id \in RunIds : wandb_run' = id
  /\ st_pc' = IF entry = "train" THEN "dir_ok" ELSE "wandb"
  /\ UNCHANGED <<entry, args_name, fs, fs0, state_made, keys_made,
               gate_vars, train_vars, mosaic_vars, val_vars>>

\* train_adversarial.py 156-157: run_dir = Path(f'runs/{wandb.run.id}/');
\* assert not run_dir.exists()
AdvCheckRunDir ==
  /\ entry = "adversarial" /\ st_pc = "wandb"
  /\ st_pc' = IF run_dir \in fs THEN "aborted" ELSE "dir_ok"
  /\ UNCHANGED <<entry, args_name, fs, fs0, wandb_run, state_made, keys_made,
               gate_vars, train_vars, mosaic_vars, val_vars>>

\* train.py 151, train_adversarial.py 159: run_dir.mkdir(parents=True)
\* (raises FileExistsError when the directory exists).
MkRunDir ==
  /\ st_pc = "dir_ok"
  /\ IF run_dir \in fs
       THEN st_pc' = "aborted" /\ fs' = fs
       ELSE st_pc' = "mkdir" /\ fs' = fs \cup {run_dir}
  /\ UNCHANGED <<entry, args_name, fs0, wandb_run, state_made, keys_made,
               gate_vars, train_vars, mosaic_vars, val_vars>>

\* train.py 152-154, train_adversarial.py 160-162: the config snapshot.
WriteConfig ==
  /\ st_pc = "mkdir"
  /\ fs' = fs \cup {IF entry = "train" THEN ConfigOf(args_name)
                                        ELSE ConfigOf(wandb_run)}
  /\ st_pc' = "loop"
  /\ UNCHANGED <<entry, args_name, fs0, wandb_run, state_made, keys_made,
               gate_vars, train_vars, mosaic_vars, val_vars>>

NextStartup ==
  \/ TrainCheckRunDir
  \/ MakeKeys
  \/ LoadConfigAndData
  \/ MakeState
  \/ WandbInit
  \/ AdvCheckRunDir
  \/ MkRunDir
  \/ WriteConfig

SpecStartup == InitStartup /\ [][NextStartup]_vars

\* The output directory of the run that is starting: known from --name in
\* train.py, known once wandb.init has named the run in train_adversarial.py.
RunDirExistedAtStart ==
  IF entry = "train" THEN RunDirOf(args_name) \in fs0
  ELSE wandb_run # NoRun /\ RunDirOf(wandb_run) \in fs0

\* C1: when the run's output directory exists at start-up the program aborts,
\* and at the abort nothing has been created: no file or directory, no
\* telemetry session, no training state.
C1_AbortBeforeSideEffects ==
  /\ (RunDirExistedAtStart /\ st_pc \notin {"parsed", "keys", "data", "state", "wandb"})
        => st_pc = "aborted"
  /\ (st_pc = "aborted")
        => (fs = fs0 /\ wandb_run = NoRun /\ state_made = FALSE)


(***************************************************************************)
(*                         PSEUDO-LABEL GATE                               *)
(***************************************************************************)
\* Confidences in hundredths: 0.00, 0.01, ..., 1.00.
Confidences == 0..100

\* train.py 62-63: the thresholds 0.8 and 0.2, in hundredths.
TauHigh == 80
TauLow  == 20

\* A gate whose comparisons include the thresholds.
PseudoLabelGateInclusive(c) ==
  IF c >= TauHigh THEN 1 ELSE IF c =< TauLow THEN 0 ELSE -1

\* train.py 62-64: jnp.where(mask_d > 0.8, 1, jnp.where(mask_d < 0.2, 0, -1))
PseudoLabelGate(c) ==
  IF c > TauHigh THEN 1 ELSE IF c < TauLow THEN 0 ELSE -1

InitGate ==
  /\ conf \in Confidences
  /\ label = <<>>
  /\ entry = Idle /\ st_pc = Idle /\ args_name = Idle /\ fs = {} /\ fs0 = {}
  /\ wandb_run = NoRun /\ state_made = FALSE /\ keys_made = FALSE
  /\ run = <<>> /\ heap = <<>> /\ shared = <<>>
  /\ data = <<>> /\ m_pc = Idle /\ canvas = <<>>
  /\ val_cfg = <<>> /\ val_step = 0 /\ val_pc = Idle /\ val_tag = 0 /\ val_i = 0
  /\ val_outputs = <<>> /\ val_todo = <<>> /\ wandb_log = <<>>

ApplyGate ==
  /\ label = <<>>
  /\ label' = <<PseudoLabelGate(conf)>>
  /\ UNCHANGED <<conf, startup_vars, train_vars, mosaic_vars, val_vars>>

NextGate == ApplyGate

SpecGate == InitGate /\ [][NextGate]_vars

\* C4: the gate yields 1 above 0.8, 0 below 0.2 and -1 otherwise, the two
\* thresholds themselves included in "otherwise"; confidences
\* 0.1, 0.2, 0.25, 0.8, 0.85 give 0, -1, -1, -1, 1.
C4_GateTernary ==
  label # <<>> =>
    /\ label[1] \in {-1, 0, 1}
    /\ (label[1] = 1) <=> (conf * 10 > 8 * 100)
    /\ (label[1] = 0) <=> (conf * 10 < 2 * 100)
    /\ (conf * 10 = 2 * 100 \/ conf * 10 = 8 * 100) => label[1] = -1
    /\ conf = 10 => label[1] = 0
    /\ conf = 25 => label[1] = -1
    /\ conf = 85 => label[1] = 1

\* The gate has run on a confidence exactly at a threshold.
C4_Witness == label # <<>> /\ conf \in {20, 80}


(***************************************************************************)
(*                 TRAINING: values and collaborators                      *)
(*                                                                         *)
(* An image batch is a sequence of samples, a sample a sequence of pixels. *)
(* A batch is a record of channels: img (Sentinel2 / s2 / img in the       *)
(* source) and, when labelled, mask (Mask / mask).  Logits are integers in *)
(* -3..3, losses hundredths.                                               *)
(***************************************************************************)
MaxSteps == 3    \* config.train.steps
MaxWeight == 2   \* the largest semi-supervised weight tried
KeyMod == 16     \* PRNG keys are 0..KeyMod-1

Clamp(x, lo, hi) == IF x < lo THEN lo ELSE IF x > hi THEN hi ELSE x
Sign(x) == IF x > 0 THEN 1 ELSE IF x < 0 THEN -1 ELSE 0

RECURSIVE SumSeq(_)
SumSeq(q) == IF q = <<>> THEN 0 ELSE Head(q) + SumSeq(Tail(q))

RECURSIVE Flatten(_)
Flatten(b) == IF b = <<>> THEN <<>> ELSE Head(b) \o Flatten(Tail(b))

Reverse(q) == [i \in 1..Len(q) |-> q[Len(q) + 1 - i]]

\* jnp.mean
Mean(q) == SumSeq(q) \div Len(q)

\* jax.nn.sigmoid of a logit, in hundredths.
Sigmoid(x) ==
  LET t == <<5, 12, 27, 50, 73, 88, 95>> IN t[Clamp(x, -3, 3) + 4]

\* -jax.nn.log_sigmoid of a logit, in hundredths.
NegLogSigmoid(x) ==
  LET t == <<305, 213, 131, 69, 31, 13, 5>> IN t[Clamp(x, -3, 3) + 4]

\* jax.random.PRNGKey and jax.random.split: a key is hashed into n children.
PRNGKey(seed) == seed % KeyMod
Split(key, n) == [i \in 1..n |-> (5 * key + 3 * i) % KeyMod]

\* lib.utils.prep(batch, augment_key): normalisation and a weak
\* augmentation (a flip decided by the key) applied to every channel alike.
prep(batch, augment_key) ==
  [c \in DOMAIN batch |->
     [i \in 1..Len(batch[c]) |->
        IF augment_key % 2 = 1 THEN Reverse(batch[c][i]) ELSE batch[c][i]]]

\* lib.utils.prep(batch) without a key: normalisation only.
prep_unaugmented(batch) == batch

\* lib.utils.distort(batch, key): a strong augmentation, a pure function of
\* (batch, key): a geometric part (a flip) on every channel, a photometric
\* part (a brightness shift) on imagery only.
distort(batch, key) ==
  [c \in DOMAIN batch |->
     [i \in 1..Len(batch[c]) |->
        LET g == IF (key \div 2) % 2 = 1 THEN Reverse(batch[c][i])
                                         ELSE batch[c][i]
        IN  IF c = "img"
              THEN [j \in 1..Len(g) |-> Clamp(g[j] + ((key \div 4) % 2), -2, 2)]
              ELSE g]]

\* model = S.apply: forward(params, images) -> logits, one per pixel,
\* deterministic given params and input.
model(params, imgs) ==
  [i \in 1..Len(imgs) |->
     [j \in 1..Len(imgs[i]) |-> Clamp(params + imgs[i][j], -3, 3)]]

\* D = discriminator.apply: one logit per sample.
D(d_params, x) ==
  [i \in 1..Len(x) |-> Clamp(d_params - SumSeq(x[i]), -3, 3)]

\* lib.losses: binary cross entropy on logits, averaged over the pixels; a
\* pixel whose label is neither 0 nor 1 (-1 undetermined, >= 2 ignore)
\* contributes nothing.
Bce(mask, pred) ==
  LET m == Flatten(mask)
      q == Flatten(pred)
  IN  Mean([i \in 1..Len(m) |->
              IF m[i] = 1 THEN NegLogSigmoid(q[i])
              ELSE IF m[i] = 0 THEN NegLogSigmoid(-q[i])
              ELSE 0])

\* get_loss_fn(mode)(mask, pred): the loss configured for a role
\* ('supervised', 'semisupervised', 'train'); every role is configured
\* with the cross entropy above.
get_loss_fn(mode, mask, pred) == Bce(mask, pred)

\* lib.metrics.compute_premetrics(mask, pred): confusion counts.
compute_premetrics(mask, pred) ==
  LET m == Flatten(mask)
      q == Flatten(pred)
      N(P(_)) == Cardinality({i \in 1..Len(m) : P(i)})
      tp(i) == m[i] = 1 /\ q[i] > 0
      fp(i) == m[i] = 0 /\ q[i] > 0
      fn(i) == m[i] = 1 /\ q[i] =< 0
  IN  [TP |-> N(tp), FP |-> N(fp), FN |-> N(fn)]

\* The optimizer's update rule (optax / lion): (updates, new optimizer
\* state) from the gradients; a sign step, the state counts the updates.
optimizer(gradients, opt, params) ==
  [updates |-> -Sign(gradients), opt |-> opt + 1]

\* optax.apply_updates
apply_updates(params, updates) == params + updates

\* lib.utils.changed_state(state, **overrides): a copy with overrides; the
\* fields not named are carried over.
changed_state(state, overrides) ==
  [f \in DOMAIN state |->
     IF f \in DOMAIN overrides THEN overrides[f] ELSE state[f]]


(***************************************************************************)
(*                 TRAINING: train.py (consistency)                        *)
(***************************************************************************)
\* jnp.split(preds, np.cumsum([a, b])): the segments 1..a, a+1..a+b, rest.
SplitAt(preds, a, b) ==
  << SubSeq(preds, 1, a), SubSeq(preds, a + 1, a + b),
     SubSeq(preds, a + b + 1, Len(preds)) >>

\* jnp.bincount(mask_d.reshape(-1) + 1, length=3) / np.prod(mask_d.shape),
\* in hundredths.
Bincount3(mask_d) ==
  LET m == Flatten(mask_d) IN
  [v \in 1..3 |-> (Cardinality({i \in 1..Len(m) : m[i] + 1 = v - 1}) * 100)
                    \div Len(m)]

\* A total that leaves the weight out.
total_loss_unweighted(loss_supervised, weight, loss_semisupervised) ==
  loss_supervised + loss_semisupervised

\* train.py 72, train_adversarial.py 70-71: the total loss.
total_loss(loss_supervised, weight, loss_semisupervised) ==
  loss_supervised + weight * loss_semisupervised

\* train.py 55-85: get_loss(params), closed over the step's batches.
\* forward lists the inputs of the model's forward passes in call order,
\* split the three segments of the batched output.
get_loss(params, img_l, mask_l, img_u, img_d, aug_key_3, weight) ==
  LET imgs  == img_l \o img_u \o img_d
      preds == model(params, imgs)
      seg   == SplitAt(preds, Len(img_l), Len(img_u))
      pred_l == seg[1]
      pred_u == seg[2]
      mask_d0 == distort([mask |-> pred_u], aug_key_3).mask
      mask_d == [i \in 1..Len(mask_d0) |->
                   [j \in 1..Len(mask_d0[i]) |->
                      PseudoLabelGate(Sigmoid(mask_d0[i][j]))]]
      mask_d_counts == Bincount3(mask_d)
      pred_d == model(params, img_d)
      loss_supervised     == get_loss_fn("supervised", mask_l, pred_l)
      loss_semisupervised == get_loss_fn("semisupervised", mask_d, pred_d)
      loss == total_loss(loss_supervised, weight, loss_semisupervised)
  IN  [loss |-> loss,
       terms |-> [loss_supervised |-> loss_supervised,
                  loss_semisupervised |-> loss_semisupervised,
                  loss |-> loss,
                  supervised_premetrics |-> compute_premetrics(mask_l, pred_l),
                  semisupervised_premetrics |-> compute_premetrics(mask_d, pred_d),
                  pseudolabels_undetermined |-> mask_d_counts[1],
                  pseudolabels_negative |-> mask_d_counts[2],
                  pseudolabels_positive |-> mask_d_counts[3]],
       forward |-> <<imgs, img_d>>,
       split |-> seg,
       pred_d |-> pred_d]

\* A train_step that writes the new values into the state it was given.
train_step_in_place(labelled, unlabelled, state, key, weight) ==
  LET k == Split(key, 4)
      batch_l == distort(prep(labelled, k[1]), k[2])
      img_u   == prep(unlabelled, k[3]).img
      img_d   == distort([img |-> img_u], k[4]).img
      at(p)   == get_loss(p, batch_l.img, batch_l.mask, img_u, img_d, k[4], weight)
      here    == at(state.params)
      gradients == at(state.params + 1).loss - at(state.params - 1).loss
      o == optimizer(gradients, state.opt, state.params)
      new == [params |-> apply_updates(state.params, o.updates), opt |-> o.opt]
  IN  [terms |-> here.terms, state |-> new, input_after |-> new,
       gradients |-> gradients, aux |-> here,
       in |-> [img_l |-> batch_l.img, mask_l |-> batch_l.mask,
               img_u |-> img_u, img_d |-> img_d, aug_key_3 |-> k[4]]]

\* train.py 44-94: train_step(labelled, unlabelled, state, key).  jax.grad is
\* a central difference on the integer parameter.  input_after is the value
\* the caller's state object holds when the call returns.
train_step(labelled, unlabelled, state, key, weight) ==
  LET k == Split(key, 4)
      aug_key_1a == k[1]
      aug_key_1b == k[2]
      aug_key_2  == k[3]
      aug_key_3  == k[4]
      batch_l == distort(prep(labelled, aug_key_1a), aug_key_1b)
      img_l   == batch_l.img
      mask_l  == batch_l.mask
      img_u   == prep(unlabelled, aug_key_2).img
      img_d   == distort([img |-> img_u], aug_key_3).img
      at(p)   == get_loss(p, img_l, mask_l, img_u, img_d, aug_key_3, weight)
      \* gradients, terms = jax.grad(get_loss, has_aux=True)(state.params)
      here    == at(state.params)
      gradients == at(state.params + 1).loss - at(state.params - 1).loss
      o == optimizer(gradients, state.opt, state.params)
      new_params == apply_updates(state.params, o.updates)
  IN  [terms |-> here.terms,
       state |-> changed_state(state, [params |-> new_params, opt |-> o.opt]),
       input_after |-> state,
       gradients |-> gradients, aux |-> here,
       in |-> [img_l |-> img_l, mask_l |-> mask_l, img_u |-> img_u,
               img_d |-> img_d, aug_key_3 |-> aug_key_3]]

\* train.py 97-112, train_adversarial.py 99-113: test_step(batch, state).
test_step(batch, state) ==
  LET b == prep_unaugmented(batch)
      pred == model(state.params, b.img)
  IN  [terms |-> [loss |-> get_loss_fn("supervised", b.mask, pred),
                  val_premetrics |-> compute_premetrics(b.mask, pred)],
       preds |-> [i \in 1..Len(pred) |->
                    [j \in 1..Len(pred[i]) |-> Sigmoid(pred[i][j])]],
       input_after |-> state]


(***************************************************************************)
(*                 TRAINING: train_adversarial.py                          *)
(***************************************************************************)
\* train_adversarial.py 61-74: get_loss(params); D_params is state.D_params.
adv_get_loss(params, img, mask, img_2, D_params, weight) ==
  LET pred_true == model(params, img)
      pred_fake == model(params, img_2)
      judgement == D(D_params, pred_fake)
      loss_super == get_loss_fn("train", mask, pred_true)
      loss_semi  == Mean([i \in 1..Len(Flatten(pred_fake)) |->
                            NegLogSigmoid(Flatten(pred_fake)[i])])
      loss == total_loss(loss_super, weight, loss_semi)
  IN  [loss |-> loss,
       terms |-> [loss_super |-> loss_super,
                  loss_semi |-> loss_semi,
                  loss |-> loss,
                  super_premetrics |-> compute_premetrics(mask, pred_true)],
       pred_fake |-> pred_fake,
       judgement |-> judgement]

\* train_adversarial.py 80-84: discriminator_loss(d_params), closed over
\* mask and pred_fake.
discriminator_loss(d_params, mask, pred_fake) ==
  LET real == [i \in 1..Len(mask) |->
                 [j \in 1..Len(mask[i]) |->
                    IF mask[i][j] >= 2 THEN 0 ELSE mask[i][j]]]
      out_true == D(d_params, real)
      out_fake == D(d_params, pred_fake)
  IN  Mean([i \in 1..Len(out_fake) |->
              NegLogSigmoid(-out_fake[i]) + NegLogSigmoid(out_true[i])])

\* A train_step that shows the discriminator the updated generator's
\* predictions.
adv_train_step_fresh(data_, unlabelled, state, key, weight) ==
  LET k == Split(key, 5)
      batch == distort(prep(data_, k[1]), k[2])
      img_2 == distort(prep(unlabelled, k[3]), k[4]).img
      at(p) == adv_get_loss(p, batch.img, batch.mask, img_2, state.D_params, weight)
      here  == at(state.params)
      gradients == at(state.params + 1).loss - at(state.params - 1).loss
      o == optimizer(gradients, state.opt, state.params)
      new_params == apply_updates(state.params, o.updates)
      pred_fake == model(new_params, img_2)
      dl(dp) == discriminator_loss(dp, batch.mask, pred_fake)
      D_gradients == dl(state.D_params + 1) - dl(state.D_params - 1)
      od == optimizer(D_gradients, state.D_opt, state.D_params)
      loss_discriminator == dl(state.D_params)
  IN  [terms |-> [f \in DOMAIN here.terms \cup {"loss_discriminator"} |->
                    IF f = "loss_discriminator" THEN loss_discriminator
                    ELSE here.terms[f]],
       state |-> changed_state(state,
                   [params |-> new_params, opt |-> o.opt,
                    D_params |-> apply_updates(state.D_params, od.updates),
                    D_opt |-> od.opt]),
       input_after |-> state,
       gradients |-> gradients, aux |-> here,
       in |-> [img |-> batch.img, mask |-> batch.mask, img_2 |-> img_2]]

\* train_adversarial.py 51-96: train_step(data, unlabelled, state, key).
adv_train_step(data_, unlabelled, state, key, weight) ==
  LET k == Split(key, 5)
      key_1a == k[1]
      key_1b == k[2]
      key_2  == k[3]
      key_3  == k[4]
      batch == distort(prep(data_, key_1a), key_1b)
      img   == batch.img
      mask  == batch.mask
      img_2 == distort(prep(unlabelled, key_2), key_3).img
      at(p) == adv_get_loss(p, img, mask, img_2, state.D_params, weight)
      \* gradients, (terms, pred_fake) = jax.grad(get_loss, has_aux=True)(state.params)
      here  == at(state.params)
      gradients == at(state.params + 1).loss - at(state.params - 1).loss
      pred_fake == here.pred_fake
      o == optimizer(gradients, state.opt, state.params)
      new_params == apply_updates(state.params, o.updates)
      dl(dp) == discriminator_loss(dp, mask, pred_fake)
      \* jax.value_and_grad(discriminator_loss)(state.D_params)
      loss_discriminator == dl(state.D_params)
      D_gradients == dl(state.D_params + 1) - dl(state.D_params - 1)
      od == optimizer(D_gradients, state.D_opt, state.D_params)
      D_params == apply_updates(state.D_params, od.updates)
  IN  [terms |-> [f \in DOMAIN here.terms \cup {"loss_discriminator"} |->
                    IF f = "loss_discriminator" THEN loss_discriminator
                    ELSE here.terms[f]],
       state |-> changed_state(state,
                   [params |-> new_params, opt |-> o.opt,
                    D_params |-> D_params, D_opt |-> od.opt]),
       input_after |-> state,
       gradients |-> gradients, aux |-> here,
       in |-> [img |-> img, mask |-> mask, img_2 |-> img_2]]


(***************************************************************************)
(*                 TRAINING: the loop, two runs side by side               *)
(*                                                                         *)
(* Two runs of the same script are started with the same --seed, the same  *)
(* configuration and the same data sequence; they differ in --name and in  *)
(* the run id wandb gives them.  Each run owns a heap of state objects:    *)
(* run[r].state is the index of the object the loop's `state` names.       *)
(***************************************************************************)
Runs  == {1, 2}
Seeds == {0, 3}

\* The labelled and unlabelled training sets and the validation set: a
\* deterministic, cycling sequence of batches.  train_adversarial.py's
\* discriminator loss adds per-sample scores of the labelled and of the
\* unlabelled batch, so there the two batch sizes agree.
LabelledData ==
  << [img |-> << <<1, -1>>, <<0, 1>> >>, mask |-> << <<1, 0>>, <<0, 2>> >>],
     [img |-> << <<-1, 1>> >>,           mask |-> << <<0, 1>> >>] >>

UnlabelledData(script) ==
  IF script = "train"
    THEN << [img |-> << <<1, 0>> >>],
            [img |-> << <<-1, 1>>, <<2, -2>> >>] >>
    ELSE << [img |-> << <<1, 0>>, <<-2, 0>> >>],
            [img |-> << <<2, -2>> >>] >>

ValData ==
  << [img |-> << <<1, 1>>, <<-1, 0>> >>, mask |-> << <<1, 1>>, <<0, 0>> >>] >>

\* next(gen) for the n-th time on a cycling loader started at offset.
NextBatch(ds, offset, n) == ds[((offset + n - 1) % Len(ds)) + 1]

\* utils.get_model / opt_init / discriminator.init: the initial state does
\* not depend on --seed (get_model is given no key, the discriminator is
\* initialised from PRNGKey(31)).
InitialState(script) ==
  IF script = "train" THEN [params |-> 0, opt |-> 0]
  ELSE [params |-> 0, opt |-> 0, D_params |-> 1, D_opt |-> 0]

\* A train_key made from the run's name instead of --seed.
InitialTrainKeyFromName(seed, name) == Split(PRNGKey(name), 2)[1]

\* train.py 128 and 134, train_adversarial.py 125 and 133:
\* train_key = PRNGKey(args.seed); train_key, subkey = split(train_key)
InitialTrainKey(seed, name) == Split(PRNGKey(seed), 2)[1]

InitTrain ==
  /\ shared \in [script : Entries, seed : Seeds, weight : 0..MaxWeight,
                 offset : 0..1, frequency : 1..2, image_frequency : 1..2]
  /\ run = [r \in Runs |->
              [name |-> r,
               train_key |-> InitialTrainKey(shared.seed, r),
               state |-> 1,
               step |-> 0,
               pc |-> "train",
               trn_metrics |-> <<>>,
               logged |-> <<>>,
               ckpt |-> <<>>,
               last |-> <<>>]]
  /\ heap = [r \in Runs |-> << InitialState(shared.script) >>]
  /\ entry = Idle /\ st_pc = Idle /\ args_name = Idle /\ fs = {} /\ fs0 = {}
  /\ wandb_run = NoRun /\ state_made = FALSE /\ keys_made = FALSE
  /\ conf = 0 /\ label = <<>>
  /\ data = <<>> /\ m_pc = Idle /\ canvas = <<>>
  /\ val_cfg = <<>> /\ val_step = 0 /\ val_pc = Idle /\ val_tag = 0 /\ val_i = 0
  /\ val_outputs = <<>> /\ val_todo = <<>> /\ wandb_log = <<>>

\* train.py 160-168 and 173, train_adversarial.py 167-183: one iteration of
\* the loop up to the validation test.
TrainIteration(r) ==
  /\ run[r].pc = "train"
  /\ run[r].step < MaxSteps
  /\ LET step == run[r].step + 1
         labelled   == NextBatch(LabelledData, shared.offset, step)
         unlabelled == NextBatch(UnlabelledData(shared.script), shared.offset, step)
         ks     == Split(run[r].train_key, 2)
         subkey == ks[2]
         cur    == run[r].state
         res == IF shared.script = "train"
                  THEN train_step(labelled, unlabelled, heap[r][cur], subkey,
                                  shared.weight)
                  ELSE adv_train_step(labelled, unlabelled, heap[r][cur], subkey,
                                      shared.weight)
     IN  /\ heap' = [heap EXCEPT ![r] =
                       Append([@ EXCEPT ![cur] = res.input_after], res.state)]
         /\ run' = [run EXCEPT ![r] =
                      [@ EXCEPT !.train_key = ks[1],
                                !.state = Len(heap[r]) + 1,
                                !.step = step,
                                !.trn_metrics = Append(@, res.terms),
                                !.last = << [step |-> step, subkey |-> subkey,
                                             prev |-> cur,
                                             terms |-> res.terms,
                                             gradients |-> res.gradients,
                                             aux |-> res.aux,
                                             in |-> res.in] >>,
                                !.pc = IF step % shared.frequency = 0
                                         THEN "validate" ELSE "train"]]
  /\ UNCHANGED <<shared, startup_vars, gate_vars, mosaic_vars, val_vars>>

\* The metrics of one validation pass: test_step on every batch.
ValPass(state) ==
  [i \in 1..Len(ValData) |-> test_step(ValData[i], state).terms]

\* train.py 173-197, train_adversarial.py 185-215: log and reset the
\* training metrics, validate, save the checkpoint (train.py at every
\* validation, train_adversarial.py when the step is an image step).
Validate(r) ==
  /\ run[r].pc = "validate"
  /\ LET cur == run[r].state
         st  == heap[r][cur]
         saves == \/ shared.script = "train"
                  \/ run[r].step % shared.image_frequency = 0
     IN  /\ heap' = [heap EXCEPT ![r] =
                       [@ EXCEPT ![cur] = test_step(ValData[1], st).input_after]]
         /\ run' = [run EXCEPT ![r] =
                      [@ EXCEPT !.logged = @ \o
                                   << [tag |-> "trn", step |-> run[r].step,
                                       metrics |-> run[r].trn_metrics],
                                      [tag |-> "val", step |-> run[r].step,
                                       metrics |-> ValPass(st)] >>,
                                !.trn_metrics = <<>>,
                                !.ckpt = IF saves THEN <<st>> ELSE @,
                                !.pc = "train"]]
  /\ UNCHANGED <<shared, startup_vars, gate_vars, mosaic_vars, val_vars>>

Next ==
  \/ \E r \in Runs : TrainIteration(r)
  \/ \E r \in Runs : Validate(r)

Spec == InitTrain /\ [][Next]_vars


(***************************************************************************)
(*                 TRAINING: properties                                    *)
(***************************************************************************)
Stepped(r) == run[r].last # <<>>
LastOf(r)  == run[r].last[1]
\* The state object train_step was given in the last iteration, as it is
\* now, and the object the loop's `state` names now.
OldState(r) == heap[r][LastOf(r).prev]
NewState(r) == heap[r][run[r].state]

\* C2: the discriminator's loss, gradient and new D_params of a step are
\* those of pred_fake = model(old params, img_2), the prediction of the
\* generator the step was given: recomputing with the old parameters gives
\* the reported discriminator loss and the new D_params.
C2_DiscriminatorSeesOldGenerator ==
  \A r \in Runs :
    (shared.script = "adversarial" /\ Stepped(r)) =>
      LET l  == LastOf(r)
          pf == model(OldState(r).params, l.in.img_2)
          dl(dp) == discriminator_loss(dp, l.in.mask, pf)
          dp0 == OldState(r).D_params
          g  == dl(dp0 + 1) - dl(dp0 - 1)
      IN  /\ l.terms.loss_discriminator = dl(dp0)
          /\ NewState(r).D_params =
               apply_updates(dp0, optimizer(g, OldState(r).D_opt, dp0).updates)

\* A step after which the updated generator's prediction on img_2 would
\* have given the discriminator another loss.
C2_Witness ==
  \E r \in Runs :
    /\ shared.script = "adversarial" /\ Stepped(r)
    /\ NewState(r).params # OldState(r).params
    /\ discriminator_loss(OldState(r).D_params, LastOf(r).in.mask,
                          model(NewState(r).params, LastOf(r).in.img_2))
         # LastOf(r).terms.loss_discriminator

\* C3: the generator's semi-supervised term is mean(-log_sigmoid(D(pred_fake)))
\* under the discriminator parameters of the state given to the step, and
\* the generator loss is supervised + weight * that term.
C3_GeneratorLossUsesDiscriminator ==
  \A r \in Runs :
    (shared.script = "adversarial" /\ Stepped(r)) =>
      LET l == LastOf(r)
          judgement == D(OldState(r).D_params, l.aux.pred_fake)
          semi == Mean([i \in 1..Len(judgement) |-> NegLogSigmoid(judgement[i])])
      IN  /\ l.terms.loss_semi = semi
          /\ l.terms.loss = l.terms.loss_super + shared.weight * semi

\* The total loss the step reports, as a function of the parameters.
ReportedLoss(r, p) ==
  LET i == LastOf(r).in IN
  IF shared.script = "train"
    THEN get_loss(p, i.img_l, i.mask_l, i.img_u, i.img_d, i.aug_key_3,
                  shared.weight).terms.loss
    ELSE adv_get_loss(p, i.img, i.mask, i.img_2, OldState(r).D_params,
                      shared.weight).terms.loss

\* C5: in every step of both scripts the reported total is the reported
\* supervised loss plus weight times the reported semi-supervised loss, and
\* the parameter update is the optimizer's step along the gradient of that
\* total.
C5_LossComposition ==
  \A r \in Runs :
    Stepped(r) =>
      LET l == LastOf(r)
          t == l.terms
          p == OldState(r).params
      IN  /\ IF shared.script = "train"
               THEN t.loss = t.loss_supervised
                               + shared.weight * t.loss_semisupervised
               ELSE t.loss = t.loss_super + shared.weight * t.loss_semi
          /\ l.gradients = ReportedLoss(r, p + 1) - ReportedLoss(r, p - 1)
          /\ t.loss = ReportedLoss(r, p)
          /\ NewState(r).params =
               apply_updates(p, optimizer(l.gradients, OldState(r).opt, p).updates)

\* A step with a weight other than 0 and 1 and a semi-supervised loss that
\* counts, whose gradient moved the parameters.
C5_Witness ==
  \E r \in Runs :
    /\ Stepped(r) /\ shared.weight = 2
    /\ LastOf(r).gradients # 0
    /\ IF shared.script = "train"
         THEN LastOf(r).terms.loss_semisupervised > 0
         ELSE LastOf(r).terms.loss_semi > 0

\* C8: no step changes a state object that exists: train_step and
\* test_step leave the object they are given as it was, the new values are
\* in a new object, and the loop's state changes only to the object
\* train_step returned.
C8_StateNotMutated ==
  [][\A r \in Runs :
       /\ \A i \in 1..Len(heap[r]) : heap'[r][i] = heap[r][i]
       /\ run'[r].state # run[r].state =>
            /\ run[r].pc = "train"
            /\ run'[r].step = run[r].step + 1
            /\ run'[r].state = Len(heap[r]) + 1
            /\ Len(heap'[r]) = Len(heap[r]) + 1
       /\ run[r].pc = "validate" => run'[r].state = run[r].state]_vars

\* A run that has trained (its first state object and the one returned
\* differ) and has validated.
C8_Witness ==
  \E r \in Runs :
    /\ Len(heap[r]) >= 2
    /\ heap[r][1] = InitialState(shared.script)
    /\ heap[r][2] # heap[r][1]
    /\ run[r].logged # <<>>

RECURSIVE TrainKeyAt(_, _)
\* train_key after n iterations, from the seed alone.
TrainKeyAt(seed, n) ==
  IF n = 0 THEN Split(PRNGKey(seed), 2)[1]
  ELSE Split(TrainKeyAt(seed, n - 1), 2)[1]

\* C9: two runs with the same seed and data agree, step for step, on the
\* sub-seed given to train_step, on the metric records, on the state and on
\* the checkpoint; the sub-seed of a step is a function of the seed and the
\* step number.
C9_Reproducible ==
  /\ \A r \in Runs :
       /\ run[r].train_key = TrainKeyAt(shared.seed, run[r].step)
       /\ Stepped(r) =>
            LastOf(r).subkey =
              Split(TrainKeyAt(shared.seed, LastOf(r).step - 1), 2)[2]
  /\ \A r1 \in Runs, r2 \in Runs :
       (run[r1].step = run[r2].step /\ run[r1].pc = run[r2].pc) =>
          /\ run[r1].train_key = run[r2].train_key
          /\ run[r1].last = run[r2].last
          /\ run[r1].trn_metrics = run[r2].trn_metrics
          /\ run[r1].logged = run[r2].logged
          /\ run[r1].ckpt = run[r2].ckpt
          /\ NewState(r1) = NewState(r2)

\* Both runs, under different names, have finished the loop and saved a
\* checkpoint.
C9_Witness ==
  /\ run[1].name # run[2].name
  /\ \A r \in Runs : run[r].step = MaxSteps /\ run[r].pc = "train"
                      /\ run[r].ckpt # <<>>

\* C10: get_loss runs the model once, on [img_l, img_u, img_d], and the
\* pred_d of the losses is the third segment of that output.
C10_SingleForwardPass ==
  \A r \in Runs :
    (shared.script = "train" /\ Stepped(r)) =>
      LET l == LastOf(r) IN
      /\ Len(l.aux.forward) = 1
      /\ l.aux.forward[1] = l.in.img_l \o l.in.img_u \o l.in.img_d
      /\ l.aux.pred_d = l.aux.split[3]


(***************************************************************************)
(*        MOSAIC: weighted overlap-add blending of one tile                *)
(*                 (train_adversarial.py 217-253)                          *)
(*                                                                         *)
(* The window is np.linspace(0, 1, 96) followed by its reverse; the model  *)
(* keeps its shape with HalfWindow points per ramp and works on the        *)
(* numerators i of i / (HalfWindow - 1), so the accumulated sums are       *)
(* integers and the division is exact rational division, truncated by the *)
(* astype(np.uint8).  One channel stands for the three of rgb.  A patch is *)
(* uniform: s2, mask and pred are one raw value each (pred in fifths).     *)
(***************************************************************************)
HalfWindow == 3   \* points per ramp of the window (96 in the source)
MaxPatches == 2   \* patches of the tile

PatchSize == 2 * HalfWindow

\* np.concatenate([np.linspace(0, 1, 96), np.linspace(0, 1, 96)[::-1]])
window(i) == IF i < HalfWindow THEN i ELSE PatchSize - 1 - i

\* stencil = window * window.T, at row i and column j of the patch.
stencil(i, j) == window(i) * window(j)

\* The boxes, (x0, y0, x1, y1), of patches of the stencil's size.
Boxes == { <<x0, y0, x0 + PatchSize, y0 + PatchSize>> :
             x0 \in {0, HalfWindow}, y0 \in {0, 1} }

\* Raw patch contents: s2 (may leave [0, 255]), mask (0, 127 = unknown,
\* 255), pred (fifths of 1).
Contents == { [s2 |-> 200, mask |-> 127, pred |-> 3],
              [s2 |-> 300, mask |-> 255, pred |-> 5],
              [s2 |-> 7,   mask |-> 255, pred |-> 1] }

Patches == { [box |-> b, s2 |-> c.s2, mask |-> c.mask, pred |-> c.pred] :
               b \in Boxes, c \in Contents }

SetMax(S) == CHOOSE m \in S : \A n \in S : n =< m

\* 235-243: the patch's values as placed.
patch_rgb(patch)  == Clamp(patch.s2, 0, 255)
patch_mask(patch) == Clamp(IF patch.mask = 127 THEN 64 ELSE patch.mask, 0, 255)
patch_pred(patch) == Clamp((255 * patch.pred) \div 5, 0, 255)

\* Whether canvas pixel <<y, x>> lies in the patch's box.
InBox(patch, px) ==
  /\ patch.box[2] =< px[1] /\ px[1] < patch.box[4]
  /\ patch.box[1] =< px[2] /\ px[2] < patch.box[3]

\* The stencil's value at canvas pixel px for a patch placed at its box.
StencilAt(patch, px) ==
  IF InBox(patch, px)
    THEN stencil(px[1] - patch.box[2], px[2] - patch.box[1])
    ELSE 0

\* A normalization that divides by the accumulated weight as it is.
safe_weight_unguarded(w) == w

\* 250: weight = np.where(weight == 0, 1, weight)
safe_weight(w) == IF w = 0 THEN 1 ELSE w

\* What a division by zero leaves in the raster (nan or inf, cast to uint8).
NotANumber == 0 - 1

\* 251-253: np.clip(acc / weight, 0, 255).astype(np.uint8)
normalized(acc, w) ==
  IF w = 0 THEN NotANumber ELSE Clamp(acc \div w, 0, 255)

InitMosaic ==
  /\ data \in UNION { [1..n -> Patches] : n \in 1..MaxPatches }
  /\ m_pc = "start"
  /\ canvas = <<>>
  /\ entry = Idle /\ st_pc = Idle /\ args_name = Idle /\ fs = {} /\ fs0 = {}
  /\ wandb_run = NoRun /\ state_made = FALSE /\ keys_made = FALSE
  /\ conf = 0 /\ label = <<>>
  /\ run = <<>> /\ heap = <<>> /\ shared = <<>>
  /\ val_cfg = <<>> /\ val_step = 0 /\ val_pc = Idle /\ val_tag = 0 /\ val_i = 0
  /\ val_outputs = <<>> /\ val_todo = <<>> /\ wandb_log = <<>>

\* 219-231: the canvas of the tile, zero-initialised.
Allocate ==
  /\ m_pc = "start"
  /\ LET y_max == SetMax({data[i].box[4] : i \in 1..Len(data)})
         x_max == SetMax({data[i].box[3] : i \in 1..Len(data)})
         zeros == [px \in (0..(y_max - 1)) \X (0..(x_max - 1)) |-> 0]
     IN  canvas' = [n |-> 0, weight |-> zeros, rgb |-> zeros,
                    mask |-> zeros, pred |-> zeros]
  /\ m_pc' = "place"
  /\ UNCHANGED <<data, startup_vars, gate_vars, train_vars, val_vars>>

\* 233-248: one iteration of `for patch in data`.
PlacePatch ==
  /\ m_pc = "place"
  /\ canvas.n < Len(data)
  /\ LET patch == data[canvas.n + 1]
         add(raster, v) ==
           [px \in DOMAIN raster |-> raster[px] + StencilAt(patch, px) * v]
     IN  canvas' = [n |-> canvas.n + 1,
                    weight |-> add(canvas.weight, 1),
                    rgb    |-> add(canvas.rgb, patch_rgb(patch)),
                    mask   |-> add(canvas.mask, patch_mask(patch)),
                    pred   |-> add(canvas.pred, patch_pred(patch))]
  /\ UNCHANGED <<data, m_pc, startup_vars, gate_vars, train_vars, val_vars>>

\* 250-253: the substitution of zero weights and the division.
Normalize ==
  /\ m_pc = "place"
  /\ canvas.n = Len(data)
  /\ LET weight == [px \in DOMAIN canvas.weight |-> safe_weight(canvas.weight[px])]
         div(raster) == [px \in DOMAIN raster |-> normalized(raster[px], weight[px])]
     IN  canvas' = [n |-> canvas.n,
                    weight |-> weight,
                    rgb    |-> div(canvas.rgb),
                    mask   |-> div(canvas.mask),
                    pred   |-> div(canvas.pred)]
  /\ m_pc' = "done"
  /\ UNCHANGED <<data, startup_vars, gate_vars, train_vars, val_vars>>

NextMosaic ==
  \/ Allocate
  \/ PlacePatch
  \/ Normalize

SpecMosaic == InitMosaic /\ [][NextMosaic]_vars

\* The weight and the value a pixel accumulates, from the patch list alone.
RECURSIVE AccumulatedWeight(_, _)
AccumulatedWeight(q, px) ==
  IF q = <<>> THEN 0
  ELSE StencilAt(Head(q), px) + AccumulatedWeight(Tail(q), px)

PlacedValue(patch, channel) ==
  CASE channel = "rgb"  -> patch_rgb(patch)
    [] channel = "mask" -> patch_mask(patch)
    [] channel = "pred" -> patch_pred(patch)

RECURSIVE Accumulated(_, _, _)
Accumulated(q, px, channel) ==
  IF q = <<>> THEN 0
  ELSE StencilAt(Head(q), px) * PlacedValue(Head(q), channel)
         + Accumulated(Tail(q), px, channel)

Covering(px) == {i \in 1..Len(data) : InBox(data[i], px)}

\* The patches that cover a pixel carry the same rgb value there.
SourcesAgree ==
  \A px \in DOMAIN canvas.weight :
    \A i \in Covering(px), j \in Covering(px) :
      patch_rgb(data[i]) = patch_rgb(data[j])

\* C6: when the patches of a tile agree wherever they overlap, every pixel
\* inside a patch's box has a non-zero accumulated weight and the
\* normalized canvas holds the common value there.
C6_BlendPreservesAgreedValues ==
  (m_pc = "done" /\ SourcesAgree) =>
    \A px \in DOMAIN canvas.weight :
      \A i \in Covering(px) :
        /\ AccumulatedWeight(data, px) # 0
        /\ canvas.rgb[px] = patch_rgb(data[i])

\* C7: the normalization never divides by zero: a pixel whose accumulated
\* weight is zero is divided by 1 and its rgb, mask and prediction are 0; a
\* pixel whose accumulated weight is not zero is divided by that weight.
C7_NoDivisionByZero ==
  m_pc = "done" =>
    \A px \in DOMAIN canvas.weight :
      LET aw == AccumulatedWeight(data, px) IN
      /\ canvas.rgb[px] # NotANumber
      /\ canvas.mask[px] # NotANumber
      /\ canvas.pred[px] # NotANumber
      /\ aw = 0 => /\ canvas.weight[px] = 1
                   /\ canvas.rgb[px] = 0
                   /\ canvas.mask[px] = 0
                   /\ canvas.pred[px] = 0
      /\ aw # 0 => /\ canvas.weight[px] = aw
                   /\ canvas.rgb[px] =
                        Clamp(Accumulated(data, px, "rgb") \div aw, 0, 255)
                   /\ canvas.mask[px] =
                        Clamp(Accumulated(data, px, "mask") \div aw, 0, 255)
                   /\ canvas.pred[px] =
                        Clamp(Accumulated(data, px, "pred") \div aw, 0, 255)

\* A normalized tile with a pixel no patch covers, a covered pixel of zero
\* weight under a non-zero patch, and a pixel that was divided.
C7_Witness ==
  /\ m_pc = "done"
  /\ \E px \in DOMAIN canvas.weight : Covering(px) = {}
  /\ \E px \in DOMAIN canvas.weight :
       /\ AccumulatedWeight(data, px) = 0
       /\ \E i \in Covering(px) : patch_rgb(data[i]) > 0
  /\ \E px \in DOMAIN canvas.weight :
       AccumulatedWeight(data, px) > 1 /\ canvas.rgb[px] > 0

(***************************************************************************)
(* VALIDATION PASS  (src/train.py 160-254, src/train_adversarial.py        *)
(* 167-287).  The loop body after train_step: every validation.frequency   *)
(* steps the validation set is iterated and each patch is appended to      *)
(* val_outputs under its source tile; when the step is also a multiple of  *)
(* validation.image_frequency, one image per tile of val_outputs is built  *)
(* and exported.  train.py has one validation set, train_adversarial.py    *)
(* runs the pass once per tag of val_data.  The training step itself, the  *)
(* metrics and the checkpoints are those of Spec; the pixels of the image  *)
(* are those of SpecMosaic: an export is recorded here with the patch list *)
(* it was built from.                                                      *)
(***************************************************************************)
MaxValSteps == 2
MaxValBatches == 2

Tiles == {"a.tif", "b.tif"}

\* The source tile of each patch of a validation batch
\* (meta['source_file'] / data['source']).
ValBatches == { <<"a.tif">>, <<"a.tif", "b.tif">>,
                <<"b.tif", "a.tif">>, <<"b.tif", "b.tif">> }

ValDatasets == UNION { [1..n -> ValBatches] : n \in 1..MaxValBatches }

\* val_data: train.py validates on one set, train_adversarial.py on every
\* data set whose name starts with 'val'.
ValTags == { <<"val">>, <<"val", "val_b">> }

\* The dict appended for element i of batch b: its prediction, inputs and
\* metadata, identified here by where it came from.
output(dataset, b, i) == [source |-> dataset[b][i], batch |-> b, i |-> i]

add_output_overwrite(outputs, key, patch) ==
  IF \E k \in 1..Len(outputs) : outputs[k].tile = key
  THEN [k \in 1..Len(outputs) |->
          IF outputs[k].tile = key
          THEN [outputs[k] EXCEPT !.data = <<patch>>]
          ELSE outputs[k]]
  ELSE Append(outputs, [tile |-> key, data |-> <<patch>>])

\* val_outputs[key].append(patch) on a defaultdict(list): a new key is
\* inserted last with an empty list, then the patch is appended to the list.
add_output(outputs, key, patch) ==
  IF \E k \in 1..Len(outputs) : outputs[k].tile = key
  THEN [k \in 1..Len(outputs) |->
          IF outputs[k].tile = key
          THEN [outputs[k] EXCEPT !.data = Append(@, patch)]
          ELSE outputs[k]]
  ELSE Append(outputs, [tile |-> key, data |-> <<patch>>])

\* for i in range(preds.shape[0]): val_outputs[source[i]].append({...})
RECURSIVE add_batch(_, _, _, _)
add_batch(outputs, dataset, b, n) ==
  IF n = 0 THEN outputs
  ELSE add_output(add_batch(outputs, dataset, b, n - 1),
                  dataset[b][n], output(dataset, b, n))

\* The keys of val_outputs.items(), in insertion order.
items(outputs) == [k \in 1..Len(outputs) |-> outputs[k].tile]

data_of(outputs, tile) ==
  outputs[CHOOSE k \in 1..Len(outputs) : outputs[k].tile = tile].data

InitValidation ==
  /\ val_cfg \in { c \in [script : Entries, tags : ValTags, frequency : 1..2,
                          image_frequency : 1..2, dataset : ValDatasets] :
                     c.script = "train" => c.tags = <<"val">> }
  /\ val_step = 0
  /\ val_pc = "loop"
  /\ val_tag = 1
  /\ val_i = 0
  /\ val_outputs = <<>>
  /\ val_todo = <<>>
  /\ wandb_log = <<>>
  /\ entry = Idle /\ st_pc = Idle /\ args_name = Idle /\ fs = {} /\ fs0 = {}
  /\ wandb_run = NoRun /\ state_made = FALSE /\ keys_made = FALSE
  /\ conf = 0 /\ label = <<>>
  /\ run = <<>> /\ heap = <<>> /\ shared = <<>>
  /\ data = <<>> /\ m_pc = Idle /\ canvas = <<>>

\* Where control goes when the pass of the current tag is over: the next
\* tag of val_data (train_adversarial.py 188), else the next step of the loop.
AfterPass ==
  IF val_tag < Len(val_cfg.tags)
  THEN val_pc' = "begin" /\ val_tag' = val_tag + 1
  ELSE val_pc' = "loop" /\ UNCHANGED val_tag

\* train.py 160-173, train_adversarial.py 167-186: one step of the loop up
\* to the test on validation.frequency.
LoopStep ==
  /\ val_pc = "loop"
  /\ val_step < MaxValSteps
  /\ val_step' = val_step + 1
  /\ IF (val_step + 1) % val_cfg.frequency = 0
     THEN val_pc' = "begin" /\ val_tag' = 1
     ELSE UNCHANGED <<val_pc, val_tag>>
  /\ UNCHANGED <<val_cfg, val_i, val_outputs, val_todo, wandb_log,
                 startup_vars, gate_vars, train_vars, mosaic_vars>>

\* train.py 174-182, train_adversarial.py 188-192: the pass starts;
\* val_outputs = defaultdict(list).
BeginPass ==
  /\ val_pc = "begin"
  /\ val_outputs' = <<>>
  /\ val_i' = 0
  /\ val_pc' = "iterate"
  /\ UNCHANGED <<val_cfg, val_step, val_tag, val_todo, wandb_log,
                 startup_vars, gate_vars, train_vars, mosaic_vars>>

\* train.py 183-195, train_adversarial.py 193-206: one batch of the
\* validation set; each of its patches goes under its source tile.
ValBatch ==
  /\ val_pc = "iterate"
  /\ val_i < Len(val_cfg.dataset)
  /\ val_i' = val_i + 1
  /\ val_outputs' = add_batch(val_outputs, val_cfg.dataset, val_i + 1,
                              Len(val_cfg.dataset[val_i + 1]))
  /\ UNCHANGED <<val_cfg, val_step, val_pc, val_tag, val_todo, wandb_log,
                 startup_vars, gate_vars, train_vars, mosaic_vars>>

\* train.py 197-200, train_adversarial.py 208-217: the validation set is
\* exhausted; on an image step the loop over val_outputs.items() starts.
EndOfValidationSet ==
  /\ val_pc = "iterate"
  /\ val_i = Len(val_cfg.dataset)
  /\ IF val_step % val_cfg.image_frequency = 0 /\ val_outputs # <<>>
     THEN /\ val_todo' = items(val_outputs)
          /\ val_pc' = "images"
          /\ UNCHANGED val_tag
     ELSE /\ AfterPass
          /\ UNCHANGED val_todo
  /\ UNCHANGED <<val_cfg, val_step, val_i, val_outputs, wandb_log,
                 startup_vars, gate_vars, train_vars, mosaic_vars>>

\* train.py 200-254, train_adversarial.py 217-287: one iteration of
\* `for tile, data in val_outputs.items()`: the image of the tile is built
\* from data and exported with wandb.log.  val_outputs is not written.
ExportTile ==
  /\ val_pc = "images"
  /\ val_todo # <<>>
  /\ wandb_log' = Append(wandb_log,
                         [step |-> val_step,
                          tag |-> val_tag,
                          tile |-> Head(val_todo),
                          data |-> data_of(val_outputs, Head(val_todo))])
  /\ val_todo' = Tail(val_todo)
  /\ IF Tail(val_todo) = <<>>
     THEN AfterPass
     ELSE UNCHANGED <<val_pc, val_tag>>
  /\ UNCHANGED <<val_cfg, val_step, val_i, val_outputs,
                 startup_vars, gate_vars, train_vars, mosaic_vars>>

NextValidation ==
  \/ LoopStep
  \/ BeginPass
  \/ ValBatch
  \/ EndOfValidationSet
  \/ ExportTile

SpecValidation == InitValidation /\ [][NextValidation]_vars

(***************************************************************************)
(* Properties of the validation pass.                                      *)
(***************************************************************************)
\* The patches the first n batches of the validation set yield, in order.
RECURSIVE YieldedPatches(_, _)
YieldedPatches(dataset, n) ==
  IF n = 0 THEN <<>>
  ELSE YieldedPatches(dataset, n - 1)
         \o [i \in 1..Len(dataset[n]) |-> output(dataset, n, i)]

\* Those of them that belong to one tile.
PatchesOfTile(dataset, n, t) ==
  LET OfTile(p) == p.source = t
  IN  SelectSeq(YieldedPatches(dataset, n), OfTile)

TilesYielded(dataset, n) ==
  { t \in Tiles : PatchesOfTile(dataset, n, t) # <<>> }

\* The tiles whose patches val_outputs holds.
HeldTiles == { val_outputs[k].tile : k \in 1..Len(val_outputs) }

\* The exports of the pass of step s on the data set of tag g.
ExportsOf(s, g) ==
  LET OfPass(e) == e.step = s /\ e.tag = g
  IN  SelectSeq(wandb_log, OfPass)

TimesExported(s, g, t) ==
  Cardinality({ k \in 1..Len(ExportsOf(s, g)) : ExportsOf(s, g)[k].tile = t })

\* The pass of step s and tag g has run to its end.
PassOver(s, g) ==
  /\ s % val_cfg.frequency = 0
  /\ \/ s < val_step
     \/ s = val_step /\ g < val_tag
     \/ s = val_step /\ g = val_tag /\ val_pc = "loop"

ImageStep(s) == s % val_cfg.image_frequency = 0

=============================================================================
